---- MODULE Spec2Model ----
(***************************************************************************)
(* Model of release_update.py: rebase a patch branch of a fork onto an     *)
(* upstream release tag and stamp the result with the tag <tag>-iam.       *)
(*                                                                         *)
(* Text (command output, tag names, branch names, remote listings) is a    *)
(* sequence of tokens; a token is a piece of text that is never split.     *)
(* A commit is the sequence of changes from the root of its history, so    *)
(* that "a is an ancestor of b" is "a is a prefix of b".                   *)
(***************************************************************************)
EXTENDS Naturals, Sequences, FiniteSets

\* ------------------------------ bounds ---------------------------------
NumReleases == 2
MaxPatches == 1

\* --------------------------- configuration -----------------------------
UPSTREAM_URL == <<"https://github.com/", "n8n-io/n8n", ".git">>
PATCH_BRANCH_DEFAULT == <<"iam">>
RELEASE_TAG_SUFFIX == <<"iam">>

\* ------------------------------- text ----------------------------------
Whitespace == {" ", "\n", "\t"}

RECURSIVE LStrip(_)
LStrip(s) == IF s # <<>> /\ Head(s) \in Whitespace THEN LStrip(Tail(s)) ELSE s

RECURSIVE RStrip(_)
RStrip(s) ==
  IF s # <<>> /\ s[Len(s)] \in Whitespace
  THEN RStrip(SubSeq(s, 1, Len(s) - 1)) ELSE s

\* str.strip()
Strip(s) == RStrip(LStrip(s))

\* str.lower(), token by token
LowerTok(c) ==
  CASE c = "True" -> "true"
    [] c = "TRUE" -> "true"
    [] c = "False" -> "false"
    [] OTHER -> c

Lower(s) == [i \in 1..Len(s) |-> LowerTok(s[i])]

\* needle in text
Contains(text, needle) ==
  \E i \in 0..Len(text) :
    /\ i + Len(needle) <= Len(text)
    /\ SubSeq(text, i + 1, i + Len(needle)) = needle

\* truthiness of a str
Truthy(s) == s # <<>>

\* an optional command-line argument: absent (None) or a str
None == [some |-> FALSE, val |-> <<>>]
Some(s) == [some |-> TRUE, val |-> s]
ArgTruthy(a) == a.some /\ Truthy(a.val)

\* ... in ('true', '1', 'yes')
TrueWords == {<<"true">>, <<"1">>, <<"yes">>}

\* wildmatch(pattern '*-iam', name): the name ends in "-iam"
MatchesIam(name) ==
  Len(name) >= 2 /\ SubSeq(name, Len(name) - 1, Len(name)) = <<"-", "iam">>

\* f"{new_tag}-{suffix}"
ReleaseTagName(new_tag, suffix) == new_tag \o <<"-">> \o suffix

\* ------------------------------ commits --------------------------------
NoCommit == <<>>

\* the commit of the k-th upstream release
Up(k) == [i \in 1..k |-> i]

\* the fork's patch commits
Patch(p) == [i \in 1..p |-> 10 + i]

\* a is an ancestor of b, or b itself
Ancestor(a, b) ==
  a # NoCommit /\ Len(a) <= Len(b) /\ SubSeq(b, 1, Len(a)) = a

RECURSIVE CommonLen(_, _)
CommonLen(a, b) ==
  IF a = <<>> \/ b = <<>> \/ Head(a) # Head(b) THEN 0
  ELSE 1 + CommonLen(Tail(a), Tail(b))

\* the changes of s that onto does not contain yet
RECURSIVE NotIn(_, _)
NotIn(s, onto) ==
  IF s = <<>> THEN <<>>
  ELSE IF \E i \in 1..Len(onto) : onto[i] = Head(s)
       THEN NotIn(Tail(s), onto)
       ELSE <<Head(s)>> \o NotIn(Tail(s), onto)

\* (mutant) the commits are replayed on top of the old base
RebaseResultOnOldBase(onto, upstream, tip) ==
  upstream \o NotIn(SubSeq(tip, CommonLen(upstream, tip) + 1, Len(tip)), upstream)

\* git rebase --onto <onto> <upstream> <tip>: the commits of tip that are
\* not reachable from upstream, replayed on top of onto
RebaseResult(onto, upstream, tip) ==
  onto \o NotIn(SubSeq(tip, CommonLen(upstream, tip) + 1, Len(tip)), onto)

\* ------------------------------- names ---------------------------------
VersionNames == <<"n8n@1", "n8n@2", "n8n@3", "n8n@4", "n8n@5">>

\* the tag of the k-th upstream release
Rel(k) == <<VersionNames[k]>>

\* an upstream branch: a ref of upstream that is not a tag
UpstreamBranch == <<"master">>

UpstreamTagNames == {Rel(k) : k \in 1..NumReleases}

BaseNames == UpstreamTagNames \cup {UpstreamBranch}

TagNames == BaseNames \cup {ReleaseTagName(b, RELEASE_TAG_SUFFIX) : b \in BaseNames}

BranchNames == {PATCH_BRANCH_DEFAULT, <<"main">>}

\* what the refs of the upstream repository point at
UpstreamRef(name) ==
  IF name = UpstreamBranch THEN Up(NumReleases + 1)
  ELSE Up(CHOOSE k \in 1..NumReleases : Rel(k) = name)

NoTag == [commit |-> NoCommit, kind |-> "absent"]

\* ------------------------------- state ---------------------------------
VARIABLES
  args,     \* the parsed command line: patch_branch, to_tag, from_tag
  env,      \* the working copy: inRepo, wt, idx, untracked
  repo,     \* the repository: remotes, tags, heads, head, signingkey, gpgsign
  repo0,    \* the repository when the process started
  pc,       \* the position of main()
  exit,     \* <<>> while the process runs, then <<its exit status>>
  error,    \* why the process ended
  new_tag,  \* main's new_tag
  old_tag,  \* main's old_tag
  steps,    \* the steps of the workflow completed so far, in order
  failed,   \* how commands that did not succeed have ended so far
  last      \* the commands the latest action executed, with their outcomes

vars == <<args, env, repo, repo0, pc, exit, error, new_tag, old_tag, steps, failed, last>>

\* files of the working copy that are neither tracked nor ignored
BlankFile == <<" ">>
PlainFile == <<"notes.txt">>
UntrackedLists == {<<>>, <<BlankFile>>, <<PlainFile>>, <<BlankFile, PlainFile>>}

Remote(name, url) == [name |-> name, url |-> url]
Origin == Remote(<<"origin">>, <<"https://github.com/", "me/n8n", ".git">>)
OriginForkOfUpstream ==
  Remote(<<"origin">>, <<"https://github.com/", "me/n8n-", "upstream", "-fork", ".git">>)
MyUpstream == Remote(<<"my-", "upstream">>, <<"https://github.com/", "me/n8n", ".git">>)
Upstream == Remote(<<"upstream">>, UPSTREAM_URL)
RemoteLists ==
  {<<>>, <<Origin>>, <<OriginForkOfUpstream>>, <<MyUpstream>>, <<Origin, Upstream>>}

SigningKeys == {<<>>, <<"0xKEY">>}
GpgSignValues == {<<>>, <<"true">>, <<"False">>}

ArgTags == {None, Some(<<>>)} \cup {Some(t) : t \in BaseNames}
ArgBranches == {PATCH_BRANCH_DEFAULT, Rel(1)}

\* the tags of a repository whose first j upstream releases are fetched and
\* whose release k (if any) was stamped before, on the commit c
InitTags(j, k, c) ==
  [t \in TagNames |->
     IF \E i \in 1..j : t = Rel(i)
       THEN [commit |-> UpstreamRef(t), kind |-> "annotated"]
     ELSE IF k > 0 /\ t = ReleaseTagName(Rel(k), RELEASE_TAG_SUFFIX)
       THEN [commit |-> c, kind |-> "annotated"]
     ELSE NoTag]

\* the branches: main, and the patch branch with p commits on release b
\* (b = 0: on no release at all; p = 0: no patch branch)
InitHeads(b, p) ==
  [n \in BranchNames |->
     IF n = <<"main">> THEN Up(1)
     ELSE IF p = 0 THEN NoCommit ELSE Up(b) \o Patch(p)]

InitRepos ==
  {[remotes |-> rs,
    \* release k was stamped on the tip of the patch branch if the branch
    \* is based on it, and on an older version of the patch otherwise
    tags |-> InitTags(j, k, IF k = b /\ p > 0 THEN Up(b) \o Patch(p)
                            ELSE Up(k) \o <<9>>),
    heads |-> InitHeads(b, p),
    head |-> [branch |-> <<"main">>, commit |-> Up(1)],
    signingkey |-> sk, gpgsign |-> gs] :
     rs \in RemoteLists, j \in {0, NumReleases}, k \in 0..NumReleases,
     b \in 0..NumReleases, p \in 0..MaxPatches,
     sk \in SigningKeys, gs \in GpgSignValues}

InitEnvs ==
  {[inRepo |-> TRUE, wt |-> w, idx |-> i, untracked |-> u] :
     w \in BOOLEAN, i \in BOOLEAN, u \in UntrackedLists}
  \cup {[inRepo |-> FALSE, wt |-> FALSE, idx |-> FALSE, untracked |-> <<>>]}

\* the usual request: the patch branch 'iam', no --from-tag
UsualArgs ==
  {[patch_branch |-> PATCH_BRANCH_DEFAULT, to_tag |-> t, from_tag |-> None] :
     t \in {None, Some(Rel(NumReleases))}}

\* the surroundings vary (working copy, remotes, signing configuration,
\* an earlier release tag) under the usual request
InitSurroundings ==
  /\ args \in UsualArgs
  /\ env \in InitEnvs
  /\ repo \in {r \in InitRepos : /\ r.heads = InitHeads(1, 1)
                                 /\ r.tags[Rel(1)] = NoTag}

\* the request and the history vary (arguments, fetched tags, earlier
\* release tag, patch branch) in a clean working copy with both remotes
InitRequests ==
  /\ args \in [patch_branch : ArgBranches, to_tag : ArgTags, from_tag : ArgTags]
  /\ env = [inRepo |-> TRUE, wt |-> FALSE, idx |-> FALSE, untracked |-> <<>>]
  /\ repo \in {r \in InitRepos : /\ r.remotes = <<Origin, Upstream>>
                                 /\ r.signingkey = <<"0xKEY">>
                                 /\ r.gpgsign = <<>>}

Init ==
  /\ InitSurroundings \/ InitRequests
  /\ repo0 = repo
  /\ pc = "ensure_repo"
  /\ exit = <<>>
  /\ error = ""
  /\ new_tag = <<>>
  /\ old_tag = <<>>
  /\ steps = <<>>
  /\ failed = {}
  /\ last = <<>>

\* ------------------------------ commands -------------------------------
\* the step of the workflow a position of main() belongs to:
\* 1 preconditions, 2 target tag, 3 base tag, 4 rebase, 5 release tag
StepOf(p) ==
  CASE p \in {"ensure_repo", "ensure_clean", "ensure_upstream_remote",
              "gpg_main", "branch_exists"} -> 1
    [] p \in {"new_tag", "verify_new"} -> 2
    [] p = "old_tag" -> 3
    [] p \in {"rebase_verify_old", "rebase_verify_new", "rebase_checkout",
              "rebase_gpg", "rebase_run", "rebase_head"} -> 4
    [] p = "tag" -> 5
    [] OTHER -> 6

\* one call of run(cmd, check=check): res is "ok" (exit status 0), "fail"
\* (non-zero exit status) or "timeout" (TimeoutExpired)
Entry(by, cmd, res, check) ==
  [by |-> by, cmd |-> cmd, res |-> res, check |-> check, step |-> StepOf(pc)]


\* (mutant) run() forgets the exit status
RaisesOnTimeoutOnly(e) == e.res = "timeout"

\* run() raises RuntimeError
Raises(e) == e.res = "timeout" \/ (e.check /\ e.res = "fail")

\* how the commands of entries that did not succeed ended: run() raised
\* RuntimeError, or returned although the exit status was not 0
NotOk(entries) ==
  {IF Raises(entries[i]) THEN "RuntimeError" ELSE "non-zero" :
     i \in {j \in 1..Len(entries) : entries[j].res # "ok"}}

\* the outcomes of a command that only reads: its answer, or a timeout
Query(holds) == {IF holds THEN "ok" ELSE "fail", "timeout"}

\* the outcomes of a command that changes something or uses the network:
\* it can succeed only where git lets it, and it can fail anywhere
Attempt(possible) == {"fail", "timeout"} \cup (IF possible THEN {"ok"} ELSE {})

RECURSIVE Lines(_)
\* git ls-files --others --exclude-standard: one line per file
Lines(files) ==
  IF files = <<>> THEN <<>> ELSE Head(files) \o <<"\n">> \o Lines(Tail(files))

RECURSIVE RemoteV(_)
\* git remote -v
RemoteV(rs) ==
  IF rs = <<>> THEN <<>>
  ELSE Head(rs).name \o <<"\t">> \o Head(rs).url \o <<" (fetch)", "\n">>
       \o Head(rs).name \o <<"\t">> \o Head(rs).url \o <<" (push)", "\n">>
       \o RemoteV(Tail(rs))

HasRemote(r, name) == \E i \in 1..Len(r.remotes) : r.remotes[i].name = name

TagExists(r, t) == t \in TagNames /\ r.tags[t].kind # "absent"

\* git rev-parse <name>: refs/tags/<name> before refs/heads/<name>
Resolve(r, name) ==
  IF TagExists(r, name) THEN r.tags[name].commit
  ELSE IF name \in BranchNames THEN r.heads[name]
  ELSE NoCommit

\* git config --get <key>: the value and a newline, or nothing and status 1
ConfigGet(v) == IF v = <<>> THEN <<>> ELSE v \o <<"\n">>

\* ------------------------- pieces of the program -----------------------
\* is_gpg_signing_available(): the possible runs, each with the commands it
\* executed and the value it returned
GpgRuns(r) ==
  LET e1(x) == Entry("is_gpg_signing_available", "gpg --version", x, TRUE)
      e2(x) == Entry("is_gpg_signing_available", "git config --get user.signingkey", x, FALSE)
      e3(x) == Entry("is_gpg_signing_available", "git config --get commit.gpgsign", x, FALSE)
      rc2 == IF r.signingkey = <<>> THEN "fail" ELSE "ok"
      rc3 == IF r.gpgsign = <<>> THEN "fail" ELSE "ok"
      signing_key == ConfigGet(r.signingkey)
      gpg_sign == ConfigGet(r.gpgsign)
  IN  {[log |-> <<e1(x)>>, val |-> FALSE] : x \in {"fail", "timeout"}}
      \cup {[log |-> <<e1("ok"), e2("timeout")>>, val |-> FALSE]}
      \cup (IF Truthy(signing_key) /\ Truthy(Strip(signing_key))
            THEN {[log |-> <<e1("ok"), e2(rc2)>>, val |-> TRUE]}
            ELSE {[log |-> <<e1("ok"), e2(rc2), e3("timeout")>>, val |-> FALSE],
                  [log |-> <<e1("ok"), e2(rc2), e3(rc3)>>,
                   val |-> Truthy(gpg_sign)
                           /\ Lower(Strip(gpg_sign)) \in TrueWords]})

\* git fetch upstream <tag>:refs/tags/<tag>
FetchTag(r, tag) ==
  IF TagExists(r, tag) THEN r
  ELSE [r EXCEPT !.tags[tag] =
          [commit |-> UpstreamRef(tag),
           kind |-> IF tag \in UpstreamTagNames THEN "annotated"
                    ELSE "lightweight"]]

\* verify_tag_local(tag): the possible runs, each with the commands it
\* executed, the repository it leaves and whether it returned
VerifyRuns(r, tag) ==
  LET e1(x) == Entry("verify_tag_local", "git rev-parse -q --verify refs/tags/<tag>", x, TRUE)
      e2(x) == Entry("verify_tag_local", "git fetch upstream <tag>:refs/tags/<tag>", x, TRUE)
  IN  UNION {
        IF x = "ok" THEN {[log |-> <<e1(x)>>, repo |-> r, ok |-> TRUE]}
        ELSE {[log |-> <<e1(x), e2(y)>>,
               repo |-> IF y = "ok" THEN FetchTag(r, tag) ELSE r,
               ok |-> y = "ok"] :
                y \in Attempt(HasRemote(r, <<"upstream">>) /\ tag \in BaseNames)}
        : x \in Query(TagExists(r, tag))}

\* git fetch upstream --tags
FetchTags(r) ==
  [r EXCEPT !.tags =
     [t \in TagNames |->
        IF t \in UpstreamTagNames
        THEN [commit |-> UpstreamRef(t), kind |-> "annotated"]
        ELSE r.tags[t]]]

\* git remote add upstream <url>
RemoteAdd(r) == [r EXCEPT !.remotes = Append(@, Remote(<<"upstream">>, UPSTREAM_URL))]

\* "upstream" not in remotes
UpstreamMissing(remotes) == ~Contains(remotes, <<"upstream">>)

\* ensure_upstream_remote(): the possible runs
UpstreamRuns(r) ==
  LET e1(x) == Entry("ensure_upstream_remote", "git remote -v", x, TRUE)
      e2(x) == Entry("ensure_upstream_remote", "git remote add upstream", x, TRUE)
      e3(x) == Entry("ensure_upstream_remote", "git fetch upstream --tags", x, TRUE)
      Fetch(pre, r1) ==
        {[log |-> pre \o <<e3(z)>>,
          repo |-> IF z = "ok" THEN FetchTags(r1) ELSE r1,
          ok |-> z = "ok"] : z \in Attempt(HasRemote(r1, <<"upstream">>))}
  IN  {[log |-> <<e1("timeout")>>, repo |-> r, ok |-> FALSE]}
      \cup (IF UpstreamMissing(RemoteV(r.remotes))
            THEN {[log |-> <<e1("ok"), e2(y)>>, repo |-> r, ok |-> FALSE] :
                    y \in {"fail", "timeout"}}
                 \cup Fetch(<<e1("ok"), e2("ok")>>, RemoteAdd(r))
            ELSE Fetch(<<e1("ok")>>, r))

\* (mutant) git describe --tags <branch>, without --exclude
DescribeCandidatesAnyTag(r, branch) ==
  {t \in TagNames : /\ TagExists(r, t)
                    /\ Ancestor(r.tags[t].commit, Resolve(r, branch))}

\* the tags git describe --tags --exclude '*-iam' <branch> chooses from
DescribeCandidates(r, branch) ==
  {t \in TagNames : /\ TagExists(r, t)
                    /\ ~MatchesIam(t)
                    /\ Ancestor(r.tags[t].commit, Resolve(r, branch))}

\* ... --abbrev=0: the nearest of them
Nearest(r, cands) ==
  {t \in cands : \A u \in cands : Len(r.tags[u].commit) <= Len(r.tags[t].commit)}

\* infer_base_tag_with_describe(branch): the possible runs, val = <<>> is None
InferRuns(r, branch) ==
  LET e(x) == Entry("infer_base_tag_with_describe", "git describe --tags --abbrev=0 --exclude '*-iam'", x, TRUE)
      cands == DescribeCandidates(r, branch)
  IN  {[log |-> <<e("timeout")>>, val |-> <<>>]}
      \cup (IF cands = {} THEN {[log |-> <<e("fail")>>, val |-> <<>>]}
            ELSE {[log |-> <<e("ok")>>, val |-> Strip(t \o <<"\n">>)] :
                    t \in Nearest(r, cands)})

\* git checkout <name>
Checkout(r, name) ==
  IF name \in BranchNames /\ r.heads[name] # NoCommit
  THEN [r EXCEPT !.head = [branch |-> name, commit |-> r.heads[name]]]
  ELSE [r EXCEPT !.head = [branch |-> <<>>, commit |-> Resolve(r, name)]]

\* git rebase --rebase-merges --onto refs/tags/<new> refs/tags/<old> <branch>
Rebase(r, new, old, branch) ==
  LET tip == RebaseResult(r.tags[new].commit, r.tags[old].commit,
                          Resolve(r, branch))
  IN  IF branch \in BranchNames /\ r.heads[branch] # NoCommit
      THEN [r EXCEPT !.heads[branch] = tip,
                     !.head = [branch |-> branch, commit |-> tip]]
      ELSE [r EXCEPT !.head = [branch |-> <<>>, commit |-> tip]]

\* (mutant) the tag is never signed
TagUnsigned(r, t, signed) ==
  [r EXCEPT !.tags[t] = [commit |-> r.head.commit, kind |-> "annotated"]]

\* git tag -f{s,a} <t> / git tag -{s,a} <t>: an annotated tag on HEAD
Tag(r, t, signed) ==
  [r EXCEPT !.tags[t] = [commit |-> r.head.commit,
                         kind |-> IF signed THEN "signed" ELSE "annotated"]]

\* ------------------------------- main() --------------------------------
\* an uncaught RuntimeError, or sys.exit(message): exit status 1
Die(why, entries) ==
  /\ pc' = "done"
  /\ exit' = <<1>>
  /\ error' = why
  /\ last' = entries
  /\ failed' = failed \cup NotOk(entries)
  /\ steps' = steps

\* (mutant) main() stamps the release tag before it rebases
GotoTagFirst(next, entries) ==
  /\ pc' = IF next = "rebase_verify_old" THEN "tag" ELSE next
  /\ last' = entries
  /\ failed' = failed \cup NotOk(entries)
  /\ steps' = IF StepOf(next) > StepOf(pc) THEN Append(steps, StepOf(pc)) ELSE steps
  /\ UNCHANGED <<exit, error>>

\* the callee returned: main() goes on with its next statement
Goto(next, entries) ==
  /\ pc' = next
  /\ last' = entries
  /\ failed' = failed \cup NotOk(entries)
  /\ steps' = IF StepOf(next) > StepOf(pc) THEN Append(steps, StepOf(pc)) ELSE steps
  /\ UNCHANGED <<exit, error>>

\* ensure_repo()
EnsureRepo ==
  /\ pc = "ensure_repo"
  /\ \E x \in Query(env.inRepo) :
       LET e == Entry("ensure_repo", "git rev-parse --is-inside-work-tree", x, TRUE)
       IN  IF Raises(e) THEN Die("ERROR: Run this script inside a git repository.", <<e>>)
           ELSE Goto("ensure_clean", <<e>>)
  /\ UNCHANGED <<args, env, repo, repo0, new_tag, old_tag>>

\* ensure_clean()
EnsureClean ==
  /\ pc = "ensure_clean"
  /\ \E x \in Query(TRUE) :
       LET e == Entry("ensure_clean", "git ls-files --others --exclude-standard", x, TRUE)
           untracked == Strip(Lines(env.untracked))
       IN  IF Raises(e) THEN Die("RuntimeError", <<e>>)
           ELSE IF env.wt \/ env.idx \/ Truthy(untracked)
           THEN Die("ERROR: Working tree/index has changes or untracked files.", <<e>>)
           ELSE Goto("ensure_upstream_remote", <<e>>)
  /\ UNCHANGED <<args, env, repo, repo0, new_tag, old_tag>>

\* ensure_upstream_remote()
EnsureUpstreamRemote ==
  /\ pc = "ensure_upstream_remote"
  /\ \E u \in UpstreamRuns(repo) :
       /\ repo' = u.repo
       /\ IF u.ok THEN Goto("gpg_main", u.log) ELSE Die("RuntimeError", u.log)
  /\ UNCHANGED <<args, env, repo0, new_tag, old_tag>>

\* gpg_available = is_gpg_signing_available(), only printed
GpgMain ==
  /\ pc = "gpg_main"
  /\ \E g \in GpgRuns(repo) : Goto("branch_exists", g.log)
  /\ UNCHANGED <<args, env, repo, repo0, new_tag, old_tag>>

\* if not branch_exists(args.patch_branch): sys.exit(...)
BranchExists ==
  /\ pc = "branch_exists"
  /\ \E x \in Query(Resolve(repo, args.patch_branch) # NoCommit) :
       LET e == Entry("branch_exists", "git rev-parse --verify <branch>", x, TRUE)
       IN  IF Raises(e) THEN Die("ERROR: Branch does not exist.", <<e>>)
           ELSE Goto("new_tag", <<e>>)
  /\ UNCHANGED <<args, env, repo, repo0, new_tag, old_tag>>

\* new_tag = args.to_tag or get_latest_tag()
ResolveNewTag ==
  /\ pc = "new_tag"
  /\ IF ArgTruthy(args.to_tag)
     THEN /\ new_tag' = args.to_tag.val
          /\ Goto("verify_new", <<>>)
     ELSE \E x \in {"ok", "fail"} :
            LET e == Entry("get_latest_tag", "GET /repos/n8n-io/n8n/releases/latest", x, TRUE)
            IN  IF x = "ok"
                THEN /\ new_tag' = Rel(NumReleases)
                     /\ Goto("verify_new", <<e>>)
                ELSE /\ new_tag' = new_tag
                     /\ Die("RuntimeError", <<e>>)
  /\ UNCHANGED <<args, env, repo, repo0, old_tag>>

\* verify_tag_local(new_tag), in main()
VerifyNewTag ==
  /\ pc = "verify_new"
  /\ \E v \in VerifyRuns(repo, new_tag) :
       /\ repo' = v.repo
       /\ IF v.ok THEN Goto("old_tag", v.log) ELSE Die("RuntimeError", v.log)
  /\ UNCHANGED <<args, env, repo0, new_tag, old_tag>>

\* old_tag = args.from_tag or infer_base_tag_with_describe(args.patch_branch)
\* if not old_tag: sys.exit(...)
ResolveOldTag ==
  /\ pc = "old_tag"
  /\ IF ArgTruthy(args.from_tag)
     THEN /\ old_tag' = args.from_tag.val
          /\ Goto("rebase_verify_old", <<>>)
     ELSE \E i \in InferRuns(repo, args.patch_branch) :
            /\ old_tag' = i.val
            /\ IF Truthy(i.val) THEN Goto("rebase_verify_old", i.log)
               ELSE Die("ERROR: Could not infer the previous base tag", i.log)
  /\ UNCHANGED <<args, env, repo, repo0, new_tag>>

\* do_rebase: verify_tag_local(old_tag)
RebaseVerifyOld ==
  /\ pc = "rebase_verify_old"
  /\ \E v \in VerifyRuns(repo, old_tag) :
       /\ repo' = v.repo
       /\ IF v.ok THEN Goto("rebase_verify_new", v.log)
          ELSE Die("RuntimeError", v.log)
  /\ UNCHANGED <<args, env, repo0, new_tag, old_tag>>

\* do_rebase: verify_tag_local(new_tag)
RebaseVerifyNew ==
  /\ pc = "rebase_verify_new"
  /\ \E v \in VerifyRuns(repo, new_tag) :
       /\ repo' = v.repo
       /\ IF v.ok THEN Goto("rebase_checkout", v.log)
          ELSE Die("RuntimeError", v.log)
  /\ UNCHANGED <<args, env, repo0, new_tag, old_tag>>

\* do_rebase: git checkout {patch_branch}
RebaseCheckout ==
  /\ pc = "rebase_checkout"
  /\ \E x \in Attempt(Resolve(repo, args.patch_branch) # NoCommit) :
       LET e == Entry("do_rebase", "git checkout <branch>", x, TRUE)
       IN  IF Raises(e)
           THEN /\ repo' = repo
                /\ Die("RuntimeError", <<e>>)
           ELSE /\ repo' = Checkout(repo, args.patch_branch)
                /\ Goto("rebase_gpg", <<e>>)
  /\ UNCHANGED <<args, env, repo0, new_tag, old_tag>>

\* git config commit.gpgsign true
EnableGpgSign(r) == [r EXCEPT !.gpgsign = <<"true">>]

\* do_rebase: enable commit signing when GPG signing is available
RebaseGpg ==
  /\ pc = "rebase_gpg"
  /\ \E g \in GpgRuns(repo) :
       IF ~g.val
       THEN /\ repo' = repo
            /\ Goto("rebase_run", g.log)
       ELSE \E x \in Query(repo.gpgsign # <<>>) :
              LET e1 == Entry("do_rebase", "git config --get commit.gpgsign", x, FALSE)
                  current_gpg_sign == ConfigGet(repo.gpgsign)
              IN  IF Raises(e1)
                  THEN /\ repo' = repo
                       /\ Die("RuntimeError", g.log \o <<e1>>)
                  ELSE IF ~Truthy(current_gpg_sign)
                          \/ Lower(Strip(current_gpg_sign)) \notin TrueWords
                  THEN \E y \in Attempt(TRUE) :
                         LET e2 == Entry("do_rebase", "git config commit.gpgsign true", y, TRUE)
                         IN  IF Raises(e2)
                             THEN /\ repo' = repo
                                  /\ Die("RuntimeError", g.log \o <<e1, e2>>)
                             ELSE /\ repo' = EnableGpgSign(repo)
                                  /\ Goto("rebase_run", g.log \o <<e1, e2>>)
                  ELSE /\ repo' = repo
                       /\ Goto("rebase_run", g.log \o <<e1>>)
  /\ UNCHANGED <<args, env, repo0, new_tag, old_tag>>

\* do_rebase: git rebase --rebase-merges --onto ...
RebaseRun ==
  /\ pc = "rebase_run"
  /\ \E x \in Attempt(/\ TagExists(repo, new_tag)
                      /\ TagExists(repo, old_tag)
                      /\ Resolve(repo, args.patch_branch) # NoCommit) :
       LET e == Entry("do_rebase", "git rebase --rebase-merges --onto", x, TRUE)
       IN  IF Raises(e)
           THEN /\ repo' = repo
                /\ Die("RuntimeError", <<e>>)
           ELSE /\ repo' = Rebase(repo, new_tag, old_tag, args.patch_branch)
                /\ Goto("rebase_head", <<e>>)
  /\ UNCHANGED <<args, env, repo0, new_tag, old_tag>>

\* do_rebase: head = run("git rev-parse --short HEAD")
RebaseHead ==
  /\ pc = "rebase_head"
  /\ \E x \in Query(TRUE) :
       LET e == Entry("do_rebase", "git rev-parse --short HEAD", x, TRUE)
       IN  IF Raises(e) THEN Die("RuntimeError", <<e>>)
           ELSE Goto("tag", <<e>>)
  /\ UNCHANGED <<args, env, repo, repo0, new_tag, old_tag>>

\* create_or_update_release_tag(new_tag, suffix): the possible runs
TagRuns(r, tag, suffix) ==
  LET t == ReleaseTagName(tag, suffix)
      G == GpgRuns(r)
      e1(g, x) == Entry("create_or_update_release_tag",
                        IF g.val THEN "git tag -fs <t>" ELSE "git tag -fa <t>",
                        x, TRUE)
      e2(g, y) == Entry("create_or_update_release_tag",
                        IF g.val THEN "git tag -s <t>" ELSE "git tag -a <t>",
                        y, TRUE)
  IN  UNION { UNION {
        IF x = "ok"
        THEN {[log |-> g.log \o <<e1(g, x)>>, repo |-> Tag(r, t, g.val),
               ok |-> TRUE]}
        ELSE {[log |-> g.log \o <<e1(g, x), e2(g, y)>>,
               repo |-> IF y = "ok" THEN Tag(r, t, g.val) ELSE r,
               ok |-> y = "ok"] : y \in Attempt(~TagExists(r, t))}
        : x \in Attempt(TRUE)} : g \in G}

\* custom_tag = create_or_update_release_tag(new_tag, suffix=RELEASE_TAG_SUFFIX)
CreateOrUpdateReleaseTag ==
  /\ pc = "tag"
  /\ \E c \in TagRuns(repo, new_tag, RELEASE_TAG_SUFFIX) :
       /\ repo' = c.repo
       /\ IF c.ok THEN Goto("finish", c.log) ELSE Die("RuntimeError", c.log)
  /\ UNCHANGED <<args, env, repo0, new_tag, old_tag>>

\* the closing prints; main() returns
Finish ==
  /\ pc = "finish"
  /\ pc' = "done"
  /\ exit' = <<0>>
  /\ last' = <<>>
  /\ UNCHANGED <<args, env, repo, repo0, error, new_tag, old_tag, steps, failed>>

Next ==
  \/ EnsureRepo
  \/ EnsureClean
  \/ EnsureUpstreamRemote
  \/ GpgMain
  \/ BranchExists
  \/ ResolveNewTag
  \/ VerifyNewTag
  \/ ResolveOldTag
  \/ RebaseVerifyOld
  \/ RebaseVerifyNew
  \/ RebaseCheckout
  \/ RebaseGpg
  \/ RebaseRun
  \/ RebaseHead
  \/ CreateOrUpdateReleaseTag
  \/ Finish

Spec == Init /\ [][Next]_vars

\* ------------------------------ properties -----------------------------
PatchBranch == args.patch_branch

\* refs/heads/<name> exists
IsBranch(r, name) == name \in BranchNames /\ r.heads[name] # NoCommit

\* the working copy has unstaged changes, staged changes or untracked files
Dirty == env.inRepo /\ (env.wt \/ env.idx \/ env.untracked # <<>>)

Clean == env.inRepo /\ ~env.wt /\ ~env.idx /\ env.untracked = <<>>

\* the name ends in -iam
EndsInIam(t) == Len(t) >= 2 /\ t[Len(t) - 1] = "-" /\ t[Len(t)] = "iam"

\* <name>-iam
Stamp(name) == name \o <<"-", "iam">>

\* no checkout, no rebase, no change of commit.gpgsign, no release tag
Unmoved ==
  /\ repo.head = repo0.head
  /\ repo.heads = repo0.heads
  /\ repo.gpgsign = repo0.gpgsign
  /\ \A t \in TagNames : EndsInIam(t) => repo.tags[t] = repo0.tags[t]

Ran(cmd) == \E i \in 1..Len(last) : last[i].cmd = cmd

\* C1: a run on a dirty working copy fails with a non-zero exit status and
\* leaves the repository as it was (no remote added, nothing fetched, no
\* configuration changed, no checkout, no rebase, no tag created or moved).
C1_DirtyRunFailsUntouched ==
  Dirty => /\ repo = repo0
           /\ exit # <<0>>

\* C2: in a clean repository where the patch branch and both tags exist, a
\* successful run with explicit --from-tag and --to-tag ends with the patch
\* branch checked out, its tip a descendant of (or equal to) the target tag's
\* commit, and the annotated tag <to-tag>-iam on that tip.
C2_ExplicitRunRebasesAndStamps ==
  ( /\ pc = "done" /\ exit = <<0>>
    /\ Clean
    /\ ArgTruthy(args.to_tag) /\ ArgTruthy(args.from_tag)
    /\ IsBranch(repo0, PatchBranch)
    /\ TagExists(repo0, args.to_tag.val) /\ TagExists(repo0, args.from_tag.val) )
  => LET tip == repo.heads[PatchBranch]
         t == Stamp(args.to_tag.val)
     IN  /\ repo.head = [branch |-> PatchBranch, commit |-> tip]
         /\ Ancestor(repo.tags[args.to_tag.val].commit, tip)
         /\ repo.tags[t].kind \in {"annotated", "signed"}
         /\ repo.tags[t].commit = tip

\* a run as in C2 in which every command succeeded and the branch moved
C2_Witness ==
  /\ pc = "done" /\ exit = <<0>> /\ Clean
  /\ "RuntimeError" \notin failed
  /\ ArgTruthy(args.to_tag) /\ ArgTruthy(args.from_tag)
  /\ args.to_tag # args.from_tag
  /\ IsBranch(repo0, PatchBranch)
  /\ TagExists(repo0, args.to_tag.val) /\ TagExists(repo0, args.from_tag.val)
  /\ repo.heads[PatchBranch] # repo0.heads[PatchBranch]
  /\ repo.tags[Stamp(args.to_tag.val)].commit = repo.heads[PatchBranch]

\* every step of the workflow succeeded
AllStepsSucceeded ==
  /\ steps = <<1, 2, 3, 4, 5>>
  /\ env.inRepo /\ ~Dirty
  /\ IsBranch(repo, PatchBranch)
  /\ TagExists(repo, new_tag) /\ TagExists(repo, old_tag)
  /\ Ancestor(repo.tags[new_tag].commit, repo.head.commit)
  /\ TagExists(repo, Stamp(new_tag))
  /\ repo.tags[Stamp(new_tag)].commit = repo.head.commit

\* the failures the program goes on after
Handled(e) ==
  \/ ~e.check /\ e.res = "fail"
  \/ e.by = "is_gpg_signing_available"
  \/ e.by = "verify_tag_local" /\ e.cmd = "git rev-parse -q --verify refs/tags/<tag>"
  \/ e.by = "create_or_update_release_tag" /\ e.cmd \in {"git tag -fs <t>", "git tag -fa <t>"}

\* C3: the exit status is 0 only if every step succeeded; a precondition
\* failure (not a repository, dirty tree, missing patch branch), a failed
\* inference of the base tag or a failed checked subprocess gives a non-zero
\* exit status. (A failed subprocess is one whose failure its caller does
\* not handle; that handled failures are survived is the subject of C7.)
C3_ExitStatus ==
  /\ exit = <<0>> => AllStepsSucceeded
  /\ (pc = "done" /\ (~env.inRepo \/ Dirty \/ ~IsBranch(repo0, PatchBranch)))
       => exit # <<0>>
  /\ (pc = "done" /\ error = "ERROR: Could not infer the previous base tag")
       => exit # <<0>>
  /\ (pc = "done" /\ \E i \in 1..Len(last) :
                       last[i].check /\ last[i].res # "ok" /\ ~Handled(last[i]))
       => exit # <<0>>

\* a release tag differs from what it was when the process started
ReleaseTagTouched ==
  \E t \in TagNames : EndsInIam(t) /\ repo.tags[t] # repo0.tags[t]

\* C4: the steps run in the order preconditions, target tag, base tag,
\* rebase, release tag, each only after the one before succeeded; the
\* release tag is created or moved only after the rebase has succeeded, and
\* a failed rebase ends the run with the release tags untouched.
C4_StepsInOrder ==
  /\ Len(steps) <= 5
  /\ \A i \in 1..Len(steps) : steps[i] = i
  /\ pc # "done" => Len(steps) = StepOf(pc) - 1
  /\ \A i \in 1..Len(last) : Len(steps) >= last[i].step - 1
  /\ \A i \in 1..Len(last) :
       last[i].by = "create_or_update_release_tag" => Len(steps) >= 4
  /\ ReleaseTagTouched => Len(steps) >= 4
  /\ \A i \in 1..Len(last) :
       (last[i].cmd = "git rebase --rebase-merges --onto" /\ last[i].res # "ok")
         => pc = "done" /\ exit = <<1>> /\ ~ReleaseTagTouched

\* the release tag was stamped, after all four earlier steps
C4_Witness ==
  /\ pc = "finish"
  /\ steps = <<1, 2, 3, 4, 5>>
  /\ ReleaseTagTouched

\* t is an existing tag on the history of the branch that does not end in -iam
UpstreamLikeAncestor(r, branch, t) ==
  /\ TagExists(r, t)
  /\ ~EndsInIam(t)
  /\ Ancestor(r.tags[t].commit, Resolve(r, branch))

\* ... and no other such tag is nearer to the branch
NearestUpstreamLike(r, branch, t) ==
  /\ UpstreamLikeAncestor(r, branch, t)
  /\ \A u \in TagNames : UpstreamLikeAncestor(r, branch, u)
                           => Len(r.tags[u].commit) <= Len(r.tags[t].commit)

\* do_rebase has its base tag and has not rebased yet
BaseTagChosen ==
  pc \in {"rebase_verify_old", "rebase_verify_new", "rebase_checkout",
          "rebase_gpg", "rebase_run"}

\* the base tag, where "supplied" is given by the predicate supplied
BaseTagRule(supplied) ==
  /\ BaseTagChosen =>
       IF supplied THEN old_tag = args.from_tag.val
       ELSE NearestUpstreamLike(repo, PatchBranch, old_tag)
  /\ (pc = "rebase_verify_old" /\ supplied) => ~Ran("git describe --tags --abbrev=0 --exclude '*-iam'")
  /\ ( /\ pc = "done" /\ Len(steps) = 2 /\ ~supplied
       /\ ~\E t \in TagNames : UpstreamLikeAncestor(repo, PatchBranch, t) )
     => exit = <<1>> /\ Unmoved

\* C5 as claimed: the base tag is --from-tag whenever it is supplied.
C5_BaseTagAsClaimed == BaseTagRule(args.from_tag.some)

\* C5: the base tag of the rebase is --from-tag when it is supplied and not
\* empty (inference is then not consulted); otherwise it is the nearest tag
\* on the history of the patch branch that does not end in -iam; when there
\* is none the run fails with a non-zero exit status before any checkout,
\* rebase, change of commit.gpgsign or release tag.
C5_BaseTag == BaseTagRule(ArgTruthy(args.from_tag))

\* an empty --from-tag, and a release tag on the branch nearer than the
\* inferred base tag
C5_Witness ==
  /\ pc = "rebase_run"
  /\ args.from_tag = Some(<<>>)
  /\ \E t \in TagNames :
       /\ TagExists(repo, t) /\ EndsInIam(t)
       /\ Ancestor(repo.tags[t].commit, Resolve(repo, PatchBranch))
       /\ Len(repo.tags[t].commit) > Len(repo.tags[old_tag].commit)

\* is_gpg_signing_available() as the tagging step saw it
SigningAvailable ==
  /\ last # <<>>
  /\ last[1].cmd = "gpg --version" /\ last[1].res = "ok"
  /\ \A i \in 1..Len(last) :
       last[i].by = "is_gpg_signing_available" => last[i].res # "timeout"
  /\ \/ repo.signingkey # <<>>
     \/ repo.gpgsign \in {<<"true">>, <<"True">>, <<"TRUE">>, <<"1">>, <<"yes">>}

\* C6: whenever create_or_update_release_tag(new_tag) returns, the tag
\* <new_tag>-iam exists and is an annotated tag on HEAD, whether or not it
\* existed before; it is signed if GPG signing is available and unsigned
\* otherwise.
C6_ReleaseTagOnHead ==
  pc = "finish" =>
    /\ TagExists(repo, Stamp(new_tag))
    /\ repo.tags[Stamp(new_tag)].commit = repo.head.commit
    /\ repo.tags[Stamp(new_tag)].kind =
         IF SigningAvailable THEN "signed" ELSE "annotated"

\* an existing release tag on another commit was replaced by a signed one
C6_Witness ==
  /\ pc = "finish"
  /\ TagExists(repo0, Stamp(new_tag))
  /\ repo0.tags[Stamp(new_tag)].commit # repo.head.commit
  /\ repo.tags[Stamp(new_tag)] = [commit |-> repo.head.commit, kind |-> "signed"]

\* C7 as claimed: once a command has exited non-zero or timed out, the
\* process has ended with an error and nothing ran after that command.
C7_EveryFailureFatal ==
  failed # {} =>
    /\ pc = "done" /\ exit = <<1>>
    /\ \A i \in 1..Len(last) : last[i].res # "ok" => i = Len(last)

\* C7: a non-zero exit status or a timeout of a command is fatal, that is the
\* process ends with a non-zero exit status and runs no further command,
\* except for: a non-zero exit status of a command run with check=False; any
\* failure inside is_gpg_signing_available; a failed lookup of the local tag
\* in verify_tag_local, which is followed by one fetch of the tag; a failed
\* forced tag in create_or_update_release_tag, which is followed by one
\* attempt without force.
C7_UnhandledFailureFatal ==
  /\ \A i \in 1..Len(last) :
       (last[i].res # "ok" /\ ~Handled(last[i]))
         => i = Len(last) /\ pc = "done" /\ exit = <<1>>
  /\ \A i \in 1..Len(last) : \A j \in 1..Len(last) :
       (i # j /\ last[i].by = last[j].by) => last[i].cmd # last[j].cmd
  /\ pc = "done" => \A i \in 1..Len(last) - 1 : last[i].res = "ok" \/ Handled(last[i])

\* the forced tag failed, the attempt without force failed too, and the
\* process ended
C7_Witness ==
  /\ pc = "done" /\ exit = <<1>>
  /\ Len(last) >= 2
  /\ last[Len(last) - 1].cmd = "git tag -fs <t>" /\ last[Len(last) - 1].res = "fail"
  /\ last[Len(last)].cmd = "git tag -s <t>" /\ last[Len(last)].res = "fail"

\* C8: when the process has ended, commit.gpgsign is what it was before the
\* run.
C8_GpgSignRestored == pc = "done" => repo.gpgsign = repo0.gpgsign

\* C9: the checkout of the patch branch and the rebase run only where the
\* patch branch exists and both tags exist in the local tag namespace.
C9_RefsExistBeforeUse ==
  pc \in {"rebase_checkout", "rebase_gpg", "rebase_run"} =>
    /\ IsBranch(repo, PatchBranch)
    /\ TagExists(repo, new_tag)
    /\ TagExists(repo, old_tag)

\* C10: where no remote is named 'upstream', ensure_upstream_remote() has
\* added the remote 'upstream' with the n8n-io/n8n URL before it fetches.
C10_UpstreamRemoteEnsured ==
  (Ran("git fetch upstream --tags") /\ ~HasRemote(repo0, <<"upstream">>))
    => \E i \in 1..Len(repo.remotes) :
         repo.remotes[i] = [name |-> <<"upstream">>, url |-> UPSTREAM_URL]

====
